---- MODULE Spec2Model ----
(***************************************************************************)
(* Model of docx_to_md.py: the DOCX text extraction (structured and raw    *)
(* XML strategies), the text normaliser, the output-name sanitiser and     *)
(* the batch loop of main.                                                 *)
(*                                                                         *)
(* Strings are sequences of one-character strings, so that trimming,       *)
(* regular-expression substitution and suffix tests are computed on        *)
(* characters as the Python code computes them.                            *)
(***************************************************************************)
EXTENDS Integers, Sequences, FiniteSets, TLC

VARIABLES
    parts,      \* normaliser: the fragment list handed to '\n'.join
    text,       \* normaliser: the string being normalised
    text2,      \* normaliser: the result of normalising text a second time
    npc,        \* normaliser: position
    basename,   \* sanitiser: the input basename
    no_ext,     \* sanitiser: basename without its .docx extension
    clean_base, \* sanitiser: the value sanitize_basename returns
    out_name,   \* sanitiser: the output file name
    spc,        \* sanitiser: position
    body,       \* walker: the document body element (d.element.body / root)
    parts_docx, \* walker: parts built by read_docx_text_python_docx
    text_docx,  \* walker: text returned by read_docx_text_python_docx
    parts_zip,  \* walker: parts built by read_docx_text_zipxml
    text_zip,   \* walker: text returned by read_docx_text_zipxml
    wpc,        \* walker: position
    HAS_PYTHON_DOCX, \* batch: whether import docx succeeded
    inputs,     \* batch: the input paths, in order
    idx,        \* batch: index in inputs of the path the loop is at
    results,    \* batch: the report list of main
    outfiles,   \* batch: the files of the output directory, name -> content
    handles,    \* batch: indices of the inputs whose archive is open
    exc,        \* batch: the exception being propagated, or "none"
    base,       \* batch: convert_one's base
    lang,       \* batch: convert_one's lang
    doc_text,   \* batch: convert_one's text
    pc,         \* batch: position in main / convert_one / read_docx_text
    fname,      \* fence: the file name handed to detect_language_from_name
    fname_lower, \* fence: name.lower()
    ftag,       \* fence: the language tag returned
    fence,      \* fence: the opening fence line of convert_one
    fpc         \* fence: position

nvars == <<parts, text, text2, npc>>
svars == <<basename, no_ext, clean_base, out_name, spc>>
wvars == <<body, parts_docx, text_docx, parts_zip, text_zip, wpc>>
bvars == <<HAS_PYTHON_DOCX, inputs, idx, results, outfiles, handles, exc, base, lang, doc_text, pc>>
fvars == <<fname, fname_lower, ftag, fence, fpc>>
vars == <<nvars, svars, wvars, bvars, fvars>>

(***************************************************************************)
(* The value of each component while another one is being exercised        *)
(***************************************************************************)
NormIdle ==
    /\ parts = <<>>
    /\ text = <<>>
    /\ text2 = <<>>
    /\ npc = "idle"

NameIdle ==
    /\ basename = <<>>
    /\ no_ext = <<>>
    /\ clean_base = <<>>
    /\ out_name = <<>>
    /\ spc = "idle"

WalkIdle ==
    /\ body = [tag |-> "body", text |-> <<>>, kids |-> <<>>]
    /\ parts_docx = <<>>
    /\ text_docx = <<>>
    /\ parts_zip = <<>>
    /\ text_zip = <<>>
    /\ wpc = "idle"

FenceIdle ==
    /\ fname = <<>>
    /\ fname_lower = <<>>
    /\ ftag = <<>>
    /\ fence = <<>>
    /\ fpc = "idle"

BatchIdle ==
    /\ HAS_PYTHON_DOCX = FALSE
    /\ inputs = <<>>
    /\ idx = 1
    /\ results = <<>>
    /\ outfiles = <<>>
    /\ handles = {}
    /\ exc = "none"
    /\ base = <<>>
    /\ lang = <<>>
    /\ doc_text = <<>>
    /\ pc = "idle"

(***************************************************************************)
(* Characters and strings                                                  *)
(***************************************************************************)
LF == "\n"
SP == " "

\* str.strip() with no argument removes these (the model's alphabet holds
\* only the space and the newline among Python's whitespace characters)
IsSpace(c) == c \in {SP, LF}

RECURSIVE LStrip(_)
LStrip(s) == IF s # <<>> /\ IsSpace(Head(s)) THEN LStrip(Tail(s)) ELSE s

RECURSIVE RStrip(_)
RStrip(s) ==
    IF s # <<>> /\ IsSpace(s[Len(s)]) THEN RStrip(SubSeq(s, 1, Len(s) - 1)) ELSE s

\* str.strip()
Strip(s) == RStrip(LStrip(s))

\* sep.join(list)
RECURSIVE Join(_, _)
Join(sep, list) ==
    IF list = <<>> THEN <<>>
    ELSE IF Len(list) = 1 THEN list[1]
    ELSE list[1] \o sep \o Join(sep, Tail(list))

\* ''.join(list)
RECURSIVE Concat(_)
Concat(list) == IF list = <<>> THEN <<>> ELSE Head(list) \o Concat(Tail(list))

\* length of the run of newlines at the head of s (what \n{3,} greedily takes)
RECURSIVE NewlineRun(_)
NewlineRun(s) == IF s # <<>> /\ Head(s) = LF THEN 1 + NewlineRun(Tail(s)) ELSE 0

\* a non-greedy variant: \n{3} takes exactly three newlines at a time
RECURSIVE CollapseExactlyThree(_)
CollapseExactlyThree(s) ==
    IF s = <<>> THEN <<>>
    ELSE IF NewlineRun(s) >= 3
         THEN <<LF, LF>> \o CollapseExactlyThree(SubSeq(s, 4, Len(s)))
         ELSE <<Head(s)>> \o CollapseExactlyThree(Tail(s))

\* re.sub(r'\n{3,}', '\n\n', s): left to right, each maximal run of three or
\* more newlines is replaced by two
RECURSIVE CollapseNewlines(_)
CollapseNewlines(s) ==
    IF s = <<>> THEN <<>>
    ELSE LET n == NewlineRun(s) IN
         IF n >= 3 THEN <<LF, LF>> \o CollapseNewlines(SubSeq(s, n + 1, Len(s)))
         ELSE <<Head(s)>> \o CollapseNewlines(Tail(s))

\* the variant that forgets the final strip()
NormalizeNoStrip(s) == CollapseNewlines(s)

\* text = re.sub(r'\n{3,}', '\n\n', text).strip()
Normalize(s) == Strip(CollapseNewlines(s))


(***************************************************************************)
(* The name sanitiser                                                      *)
(***************************************************************************)
Uppers == <<"A", "B", "C", "D", "E", "F", "G", "H", "I", "J", "K", "L", "M", "N", "O", "P", "Q", "R", "S", "T", "U", "V", "W", "X", "Y", "Z">>
Lowers == <<"a", "b", "c", "d", "e", "f", "g", "h", "i", "j", "k", "l", "m", "n", "o", "p", "q", "r", "s", "t", "u", "v", "w", "x", "y", "z">>

\* str.lower() / re.IGNORECASE on one character
ToLower(c) ==
    IF \E i \in 1..Len(Uppers) : Uppers[i] = c
    THEN Lowers[CHOOSE i \in 1..Len(Uppers) : Uppers[i] = c]
    ELSE c

Lower(s) == [i \in 1..Len(s) |-> ToLower(s[i])]

DotDocx == <<".", "d", "o", "c", "x">>
DotMd == <<".", "m", "d">>
VersionFormulaID == <<"V", "e", "r", "s", "i", "o", "n", " ", "F", "o", "r", "m", "u", "l", "a", "I", "D">>

EndsWith(s, suffix) ==
    /\ Len(s) >= Len(suffix)
    /\ SubSeq(s, Len(s) - Len(suffix) + 1, Len(s)) = suffix

\* the literal lit stands in s at position j, letter case ignored
LiteralAt(s, j, lit) ==
    /\ j >= 1
    /\ j + Len(lit) - 1 <= Len(s)
    /\ Lower(SubSeq(s, j, j + Len(lit) - 1)) = Lower(lit)

\* re.sub(r'\.docx$', '', s) without re.IGNORECASE
RemoveDocxCaseSensitive(s) ==
    IF EndsWith(s, DotDocx) THEN SubSeq(s, 1, Len(s) - Len(DotDocx)) ELSE s

\* re.sub(r'\.docx$', '', s, flags=re.IGNORECASE)
RemoveDocx(s) ==
    IF EndsWith(Lower(s), DotDocx) THEN SubSeq(s, 1, Len(s) - Len(DotDocx)) ELSE s

\* s[i..j-1] matches ,?\s*
SeparatorMatches(s, i, j) ==
    \/ \A k \in i..(j - 1) : IsSpace(s[k])
    \/ /\ j > i
       /\ s[i] = ","
       /\ \A k \in (i + 1)..(j - 1) : IsSpace(s[k])

\* ,?\s*Version FormulaID.*\)?$ matches s from position i (names hold no line
\* break, so .* runs to the end of the name once the literal is found)
SuffixMatchesAt(s, i) ==
    \E j \in i..Len(s) : SeparatorMatches(s, i, j) /\ LiteralAt(s, j, VersionFormulaID)

\* re.sub(r',?\s*Version FormulaID.*\)?$', '', s, flags=re.IGNORECASE): the
\* leftmost match is replaced, and it reaches the end of the string
RemoveVersionSuffix(s) ==
    IF \E i \in 1..Len(s) : SuffixMatchesAt(s, i)
    THEN LET first == CHOOSE i \in 1..Len(s) :
                          /\ SuffixMatchesAt(s, i)
                          /\ \A k \in 1..(i - 1) : ~SuffixMatchesAt(s, k)
         IN SubSeq(s, 1, first - 1)
    ELSE s

sanitize_basename(b) == Strip(RemoveVersionSuffix(RemoveDocx(b)))

Stems == { <<"p", "l", "a", "i", "n">>, <<"P", "o", "l", "i", "c", "y">>, <<" ", "a">>, <<"V", "e", "r", "s", "i", "o", "n", " ", "2">>, <<"M", "y", " ", "V", "e", "r", "s", "i", "o", "n", " ", "o", "f", " ", "i", "t">> }
Suffixes == { <<>>, <<",", " ", "V", "e", "r", "s", "i", "o", "n", " ", "F", "o", "r", "m", "u", "l", "a", "I", "D", " ", "7", ".", "2", " ", "(", "f", "i", "n", "a", "l", ")">>, <<" ", "v", "e", "r", "s", "i", "o", "n", " ", "f", "o", "r", "m", "u", "l", "a", "i", "d">>, <<" ", ",", "V", "e", "r", "s", "i", "o", "n", " ", "F", "o", "r", "m", "u", "l", "a", "I", "D", ")">>, <<"V", "e", "r", "s", "i", "o", "n", " ", "F", "o", "r", "m", "u", "l", "a", "I", "D", " ", "x">>, <<" ", "V", "e", "r", "s", "i", "o", "n", " ", "F", "o", "r", "m", "u", "l", "a">> }
Extensions == { <<".", "d", "o", "c", "x">>, <<".", "D", "O", "C", "X">>, <<" ", ".", "d", "o", "c", "x">>, <<>>, <<".", "d", "o", "c">> }

Basenames == { st \o su \o ex : st \in Stems, su \in Suffixes, ex \in Extensions }

NameInit ==
    /\ basename \in Basenames
    /\ no_ext = <<>>
    /\ clean_base = <<>>
    /\ out_name = <<>>
    /\ spc = "base"
    /\ NormIdle
    /\ WalkIdle
    /\ BatchIdle
    /\ FenceIdle

\* no_ext = re.sub(r'\.docx$', '', basename, flags=re.IGNORECASE)
StripExtension ==
    /\ spc = "base"
    /\ no_ext' = RemoveDocx(basename)
    /\ spc' = "no_ext"
    /\ UNCHANGED <<fvars, nvars, wvars, bvars, basename, clean_base, out_name>>

\* clean_base = sanitize_basename(base)
Sanitize ==
    /\ spc = "no_ext"
    /\ clean_base' = sanitize_basename(basename)
    /\ spc' = "clean"
    /\ UNCHANGED <<fvars, nvars, wvars, bvars, basename, no_ext, out_name>>

\* out_name = f"{clean_base}.md"
AppendMd ==
    /\ spc = "clean"
    /\ out_name' = clean_base \o DotMd
    /\ spc' = "named"
    /\ UNCHANGED <<fvars, nvars, wvars, bvars, basename, no_ext, clean_base>>

NameNext == StripExtension \/ Sanitize \/ AppendMd

SpecName == NameInit /\ [][NameNext]_vars

(***************************************************************************)
(* The XML tree and the two walkers                                        *)
(***************************************************************************)
\* an element: local tag name (namespace stripped), .text, children in order
Element(tag, kids) == [tag |-> tag, text |-> <<>>, kids |-> kids]
TextRun(txt) == [tag |-> "t", text |-> txt, kids |-> <<>>]
Break == [tag |-> "br", text |-> <<>>, kids |-> <<>>]

\* element.iter(): the element itself, then all its descendants, in
\* document order
RECURSIVE Iter(_)
RECURSIVE IterEach(_)
Iter(node) == <<node>> \o IterEach(node.kids)
IterEach(nodes) ==
    IF nodes = <<>> THEN <<>> ELSE Iter(Head(nodes)) \o IterEach(Tail(nodes))

\* the texts list of one paragraph: text of every t, '\n' for every br
RECURSIVE Texts(_)
Texts(nodes) ==
    IF nodes = <<>> THEN <<>>
    ELSE (IF Head(nodes).tag = "t" THEN <<Head(nodes).text>>
          ELSE IF Head(nodes).tag = "br" THEN << <<LF>> >>
          ELSE <<>>) \o Texts(Tail(nodes))

\* ''.join(texts).strip() for one p element
ParagraphFragment(para) == Strip(Concat(Texts(Iter(para))))

\* the stripped text of every t in the list, one fragment each
RECURSIVE CellFragments(_)
CellFragments(nodes) ==
    IF nodes = <<>> THEN <<>>
    ELSE (IF Head(nodes).tag = "t" THEN <<Strip(Head(nodes).text)>> ELSE <<>>)
             \o CellFragments(Tail(nodes))

\* the tbl branch: every t under the table, then one empty fragment
TableFragments(tbl) == CellFragments(Iter(tbl)) \o << <<>> >>

\* what one iteration of the loop over body.iter() appends to parts
BlockFragments(block) ==
    IF block.tag = "p" THEN <<ParagraphFragment(block)>>
    ELSE IF block.tag = "tbl" THEN TableFragments(block)
    ELSE <<>>

RECURSIVE AppendBlocks(_)
AppendBlocks(blocks) ==
    IF blocks = <<>> THEN <<>>
    ELSE BlockFragments(Head(blocks)) \o AppendBlocks(Tail(blocks))

\* the parts list of read_docx_text_python_docx: the loop runs over
\* body.iter(), that is over the body and every descendant of it
PythonDocxParts(b) == AppendBlocks(Iter(b))

\* root.findall('.//w:p'): every descendant p, in document order
RECURSIVE SelectParagraphs(_)
SelectParagraphs(nodes) ==
    IF nodes = <<>> THEN <<>>
    ELSE (IF Head(nodes).tag = "p" THEN <<Head(nodes)>> ELSE <<>>)
             \o SelectParagraphs(Tail(nodes))

FindAllParagraphs(root) == SelectParagraphs(Tail(Iter(root)))

\* the parts list of read_docx_text_zipxml
ZipXmlParts(root) ==
    LET paras == FindAllParagraphs(root)
    IN [i \in 1..Len(paras) |-> ParagraphFragment(paras[i])]

\* '\n'.join(parts), then the normalisation
PartsText(ps) == Normalize(Join(<<LF>>, ps))

MaxBlocks == 3
MaxCells == 2

SeqsUpTo(S, lo, hi) == UNION { [1..n -> S] : n \in lo..hi }

Run(inlines) == Element("r", inlines)
Paragraph(inlines) == Element("p", <<Run(inlines)>>)
Cell(blocks) == Element("tc", blocks)
Table(cells) == Element("tbl", <<Element("tr", cells)>>)

BodyParagraphs ==
    { Paragraph(<<TextRun(<<"a">>)>>),
      Paragraph(<<TextRun(<<SP, "b">>)>>),
      Paragraph(<<TextRun(<<"a">>), Break, TextRun(<<"b">>)>>),
      Element("p", <<>>) }

CellParagraphs == { Paragraph(<<TextRun(<<"c">>)>>), Paragraph(<<TextRun(<<"d", SP>>)>>) }

\* tables whose cells each hold one paragraph
PlainTables == { Table(cells) : cells \in SeqsUpTo({ Cell(<<p>>) : p \in CellParagraphs }, 1, MaxCells) }

\* a table whose cell holds a paragraph and a table
NestedTables ==
    { Table(<<Cell(<<p, Table(<<Cell(<<q>>)>>)>>)>>) : p \in CellParagraphs, q \in CellParagraphs }

\* a table whose cell holds a text run with no paragraph around it
BareTables == { Table(<<Cell(<<TextRun(<<SP, "c">>)>>)>>) }

Blocks == BodyParagraphs \cup PlainTables \cup NestedTables \cup BareTables

Documents == { Element("body", blocks) : blocks \in SeqsUpTo(Blocks, 0, MaxBlocks) }

WalkInit ==
    /\ body \in Documents
    /\ parts_docx = <<>>
    /\ text_docx = <<>>
    /\ parts_zip = <<>>
    /\ text_zip = <<>>
    /\ wpc = "body"
    /\ NormIdle
    /\ NameIdle
    /\ BatchIdle
    /\ FenceIdle

\* read_docx_text_python_docx, the loop over d.element.body.iter()
WalkPythonDocx ==
    /\ wpc = "body"
    /\ parts_docx' = PythonDocxParts(body)
    /\ wpc' = "docx_parts"
    /\ UNCHANGED <<fvars, nvars, svars, bvars, body, text_docx, parts_zip, text_zip>>

\* read_docx_text_python_docx, join and normalise
TextPythonDocx ==
    /\ wpc = "docx_parts"
    /\ text_docx' = PartsText(parts_docx)
    /\ wpc' = "docx_text"
    /\ UNCHANGED <<fvars, nvars, svars, bvars, body, parts_docx, parts_zip, text_zip>>

\* read_docx_text_zipxml, the loop over root.findall('.//w:p')
WalkZipXml ==
    /\ wpc = "docx_text"
    /\ parts_zip' = ZipXmlParts(body)
    /\ wpc' = "zip_parts"
    /\ UNCHANGED <<fvars, nvars, svars, bvars, body, parts_docx, text_docx, text_zip>>

\* read_docx_text_zipxml, join and normalise
TextZipXml ==
    /\ wpc = "zip_parts"
    /\ text_zip' = PartsText(parts_zip)
    /\ wpc' = "done"
    /\ UNCHANGED <<fvars, nvars, svars, bvars, body, parts_docx, text_docx, parts_zip>>

WalkNext == WalkPythonDocx \/ TextPythonDocx \/ WalkZipXml \/ TextZipXml

SpecWalk == WalkInit /\ [][WalkNext]_vars

(***************************************************************************)
(* Language detection                                                      *)
(***************************************************************************)
Contains(s, sub) ==
    \E i \in 1..(Len(s) - Len(sub) + 1) : SubSeq(s, i, i + Len(sub) - 1) = sub

CargoToml == <<"c", "a", "r", "g", "o", ".", "t", "o", "m", "l">>
RustToolchainToml == <<"r", "u", "s", "t", "-", "t", "o", "o", "l", "c", "h", "a", "i", "n", ".", "t", "o", "m", "l">>
ConfigToml == <<"c", "o", "n", "f", "i", "g", ".", "t", "o", "m", "l">>
Makefile == <<"m", "a", "k", "e", "f", "i", "l", "e">>
Gitignore == <<"g", "i", "t", "i", "g", "n", "o", "r", "e">>
DotGitignore == <<".", "g", "i", "t", "i", "g", "n", "o", "r", "e">>
Toml == <<"t", "o", "m", "l">>

\* the same tests with the makefile row tried first
detect_language_makefile_first(name) ==
    LET lower == Lower(name) IN
    IF Contains(lower, Makefile) THEN Makefile
    ELSE IF Contains(lower, CargoToml) \/ Contains(lower, RustToolchainToml)
                \/ Contains(lower, ConfigToml)
    THEN Toml
    ELSE IF Contains(lower, DotGitignore) \/ Contains(lower, Gitignore) THEN Gitignore
    ELSE <<>>

detect_language_from_name(name) ==
    LET lower == Lower(name) IN
    IF Contains(lower, CargoToml) \/ Contains(lower, RustToolchainToml)
           \/ Contains(lower, ConfigToml)
    THEN Toml
    ELSE IF Contains(lower, Makefile) THEN Makefile
    ELSE IF Contains(lower, DotGitignore) \/ Contains(lower, Gitignore) THEN Gitignore
    ELSE <<>>

(***************************************************************************)
(* The files a batch can name                                              *)
(***************************************************************************)
PathPlain == <<"a", ".", "d", "o", "c", "x">>
PathVersioned == <<"a", ",", " ", "V", "e", "r", "s", "i", "o", "n", " ", "F", "o", "r", "m", "u", "l", "a", "I", "D", " ", "2", ".", "d", "o", "c", "x">>
PathFallback == <<"d", "/", "b", ".", "D", "O", "C", "X">>
PathNotZip == <<"b", "a", "d", ".", "d", "o", "c", "x">>
PathNoPart == <<"n", "o", "p", "a", "r", "t", ".", "d", "o", "c", "x">>
PathBadXml == <<"b", "a", "d", "x", "m", "l", ".", "d", "o", "c", "x">>
PathText == <<"n", "o", "t", "e", "s", ".", "t", "x", "t">>
PathMissing == <<"g", "o", "n", "e", ".", "d", "o", "c", "x">>

Paths ==
    { PathPlain, PathVersioned, PathFallback, PathNotZip, PathNoPart, PathBadXml,
      PathText, PathMissing }

\* os.path.exists(path)
Exists(path) == path # PathMissing

\* docx.Document(path) and the walk over it raise on these files: packages
\* the library rejects, and files that are no package at all
StructuredRaises(path) == path \in {PathFallback, PathNotZip, PathNoPart, PathBadXml}

\* zipfile.ZipFile(path) raises on a file that is not a zip archive
IsZipArchive(path) == path # PathNotZip

\* z.read("word/document.xml") raises KeyError when the entry is absent
HasDocumentPart(path) == path # PathNoPart

\* ET.fromstring(xml_bytes) raises ParseError on malformed XML
IsWellFormed(path) == path # PathBadXml

\* the body of the document a package holds
DocumentOf(path) ==
    IF path = PathPlain THEN Element("body", <<Paragraph(<<TextRun(<<"a">>)>>)>>)
    ELSE IF path = PathVersioned THEN Element("body", <<Paragraph(<<TextRun(<<SP, "b">>)>>)>>)
    ELSE Element("body", <<Paragraph(<<TextRun(<<"a">>)>>),
                           Table(<<Cell(<<Paragraph(<<TextRun(<<"c">>)>>)>>)>>)>>)

\* os.path.basename(path)
RECURSIVE Basename(_)
Basename(path) ==
    IF \E i \in 1..Len(path) : path[i] = "/"
    THEN Basename(SubSeq(path, (CHOOSE i \in 1..Len(path) : path[i] = "/") + 1, Len(path)))
    ELSE path

(***************************************************************************)
(* main, convert_one and read_docx_text                                    *)
(***************************************************************************)
MaxInputs == 3

Entry(path, kind, detail) == [input |-> path, kind |-> kind, detail |-> detail]

BatchInit ==
    /\ HAS_PYTHON_DOCX \in BOOLEAN
    /\ inputs \in SeqsUpTo(Paths, 1, MaxInputs)
    /\ idx = 1
    /\ results = <<>>
    /\ outfiles = <<>>
    /\ handles = {}
    /\ exc = "none"
    /\ base = <<>>
    /\ lang = <<>>
    /\ doc_text = <<>>
    /\ pc = "loop"
    /\ NormIdle
    /\ NameIdle
    /\ WalkIdle
    /\ FenceIdle

AtPath == pc = "loop" /\ idx <= Len(inputs)

\* if not os.path.exists(path): results.append((path, "MISSING")); continue
ReportMissing ==
    /\ AtPath
    /\ ~Exists(inputs[idx])
    /\ results' = Append(results, Entry(inputs[idx], "MISSING", <<>>))
    /\ idx' = idx + 1
    /\ UNCHANGED <<fvars, nvars, svars, wvars, HAS_PYTHON_DOCX, inputs, outfiles, handles, exc, base, lang, doc_text, pc>>

\* if not path.lower().endswith(".docx"): results.append((path, "SKIPPED"))
ReportSkipped ==
    /\ AtPath
    /\ Exists(inputs[idx])
    /\ ~EndsWith(Lower(inputs[idx]), DotDocx)
    /\ results' = Append(results, Entry(inputs[idx], "SKIPPED", <<>>))
    /\ idx' = idx + 1
    /\ UNCHANGED <<fvars, nvars, svars, wvars, HAS_PYTHON_DOCX, inputs, outfiles, handles, exc, base, lang, doc_text, pc>>

\* convert_one up to the call of read_docx_text, which picks the strategy
EnterConvert ==
    /\ AtPath
    /\ Exists(inputs[idx])
    /\ EndsWith(Lower(inputs[idx]), DotDocx)
    /\ base' = Basename(inputs[idx])
    /\ lang' = detect_language_from_name(Basename(inputs[idx]))
    /\ doc_text' = <<>>
    /\ pc' = IF HAS_PYTHON_DOCX THEN "python_docx" ELSE "zip_open"
    /\ UNCHANGED <<fvars, nvars, svars, wvars, HAS_PYTHON_DOCX, inputs, idx, results, outfiles, handles, exc>>

\* try: return read_docx_text_python_docx(path), without the except clause
ReadStructuredNoFallback ==
    /\ pc = "python_docx"
    /\ IF StructuredRaises(inputs[idx])
       THEN /\ exc' = "PackageError"
            /\ pc' = "except"
            /\ UNCHANGED doc_text
       ELSE /\ doc_text' = PartsText(PythonDocxParts(DocumentOf(inputs[idx])))
            /\ pc' = "write"
            /\ UNCHANGED exc
    /\ UNCHANGED <<fvars, nvars, svars, wvars, HAS_PYTHON_DOCX, inputs, idx, results, outfiles, handles, base, lang>>

\* try: return read_docx_text_python_docx(path)
\* except Exception: return read_docx_text_zipxml(path)
ReadStructured ==
    /\ pc = "python_docx"
    /\ IF StructuredRaises(inputs[idx])
       THEN /\ pc' = "zip_open"
            /\ UNCHANGED doc_text
       ELSE /\ doc_text' = PartsText(PythonDocxParts(DocumentOf(inputs[idx])))
            /\ pc' = "write"
    /\ UNCHANGED <<fvars, nvars, svars, wvars, HAS_PYTHON_DOCX, inputs, idx, results, outfiles, handles, exc, base, lang>>

\* zipfile.ZipFile(path): the handle is held only if the constructor returns
ZipOpen ==
    /\ pc = "zip_open"
    /\ IF IsZipArchive(inputs[idx])
       THEN /\ handles' = handles \cup {idx}
            /\ pc' = "zip_read"
            /\ UNCHANGED exc
       ELSE /\ exc' = "BadZipFile"
            /\ pc' = "except"
            /\ UNCHANGED handles
    /\ UNCHANGED <<fvars, nvars, svars, wvars, HAS_PYTHON_DOCX, inputs, idx, results, outfiles, base, lang, doc_text>>

\* xml_bytes = z.read("word/document.xml")
ZipRead ==
    /\ pc = "zip_read"
    /\ exc' = IF HasDocumentPart(inputs[idx]) THEN "none" ELSE "KeyError"
    /\ pc' = "zip_exit"
    /\ UNCHANGED <<fvars, nvars, svars, wvars, HAS_PYTHON_DOCX, inputs, idx, results, outfiles, handles, base, lang, doc_text>>

\* leaving the block by a plain z.close() that an exception skips
CloseUnlessRaised(open, i, e) == IF e = "none" THEN open \ {i} ELSE open

\* leaving the with block closes the archive, exception or not
WithExit(open, i, e) == open \ {i}

ZipExit ==
    /\ pc = "zip_exit"
    /\ handles' = WithExit(handles, idx, exc)
    /\ pc' = IF exc = "none" THEN "parse" ELSE "except"
    /\ UNCHANGED <<fvars, nvars, svars, wvars, HAS_PYTHON_DOCX, inputs, idx, results, outfiles, exc, base, lang, doc_text>>

\* root = ET.fromstring(xml_bytes) and the rest of read_docx_text_zipxml
ParseAndWalk ==
    /\ pc = "parse"
    /\ IF IsWellFormed(inputs[idx])
       THEN /\ doc_text' = PartsText(ZipXmlParts(DocumentOf(inputs[idx])))
            /\ pc' = "write"
            /\ UNCHANGED exc
       ELSE /\ exc' = "ParseError"
            /\ pc' = "except"
            /\ UNCHANGED doc_text
    /\ UNCHANGED <<fvars, nvars, svars, wvars, HAS_PYTHON_DOCX, inputs, idx, results, outfiles, handles, base, lang>>

\* the file content: the header names base (its timestamp is left out), the
\* fence carries lang, the block holds text
MdBody(b, l, t) == [from |-> b, fence |-> l, text |-> t]

\* open(out_path, "w").write(md_body): creates or replaces the file
WriteFile(files, name, content) ==
    [n \in (DOMAIN files) \cup {name} |-> IF n = name THEN content ELSE files[n]]

\* the rest of convert_one, and results.append((path, outp)) in main
WriteOutput ==
    /\ pc = "write"
    /\ LET name == sanitize_basename(base) \o DotMd IN
           /\ outfiles' = WriteFile(outfiles, name, MdBody(base, lang, doc_text))
           /\ results' = Append(results, Entry(inputs[idx], "OK", name))
    /\ idx' = idx + 1
    /\ pc' = "loop"
    /\ UNCHANGED <<fvars, nvars, svars, wvars, HAS_PYTHON_DOCX, inputs, handles, exc, base, lang, doc_text>>

\* an except clause that gives up on the batch
CatchErrorAndStop ==
    /\ pc = "except"
    /\ results' = Append(results, Entry(inputs[idx], "ERROR", exc))
    /\ exc' = "none"
    /\ idx' = Len(inputs) + 1
    /\ pc' = "loop"
    /\ UNCHANGED <<fvars, nvars, svars, wvars, HAS_PYTHON_DOCX, inputs, outfiles, handles, base, lang, doc_text>>

\* except Exception as e: results.append((path, f"ERROR: {e}"))
CatchError ==
    /\ pc = "except"
    /\ results' = Append(results, Entry(inputs[idx], "ERROR", exc))
    /\ exc' = "none"
    /\ idx' = idx + 1
    /\ pc' = "loop"
    /\ UNCHANGED <<fvars, nvars, svars, wvars, HAS_PYTHON_DOCX, inputs, outfiles, handles, base, lang, doc_text>>

\* the loop is over: the report is printed from results
EndLoop ==
    /\ pc = "loop"
    /\ idx > Len(inputs)
    /\ pc' = "report"
    /\ UNCHANGED <<fvars, nvars, svars, wvars, HAS_PYTHON_DOCX, inputs, idx, results, outfiles, handles, exc, base, lang, doc_text>>

BatchNext ==
    \/ ReportMissing
    \/ ReportSkipped
    \/ EnterConvert
    \/ ReadStructured
    \/ ZipOpen
    \/ ZipRead
    \/ ZipExit
    \/ ParseAndWalk
    \/ WriteOutput
    \/ CatchError
    \/ EndLoop

Spec == BatchInit /\ [][BatchNext]_vars

(***************************************************************************)
(* Fence language selection on file names                                  *)
(***************************************************************************)
\* the grave accent character (U+0060) of a Markdown fence, written by name
BQ == "BQ"

Backticks == <<BQ, BQ, BQ>>

\* the opening fence: three backticks, the tag if it is not empty, a newline
FenceLine(l) == IF l # <<>> THEN Backticks \o l \o <<LF>> ELSE Backticks \o <<LF>>

NamePrefixes == { <<>>, <<"n", "o", "t", "e", "s", " ">>, <<"d">> }
NameKeywords ==
    { <<>>,
      <<"C", "a", "r", "g", "o", ".", "t", "o", "m", "l">>,
      <<"c", "a", "r", "g", "o", ".", "T", "O", "M", "L">>,
      <<"r", "u", "s", "t", "-", "t", "o", "o", "l", "c", "h", "a", "i", "n", ".", "t", "o", "m", "l">>,
      <<"C", "o", "n", "f", "i", "g", ".", "t", "o", "m", "l">>,
      <<"x", ".", "t", "o", "m", "l">>,
      <<"M", "a", "k", "e", "f", "i", "l", "e">>,
      <<"m", "a", "k", "e", " ", "f", "i", "l", "e">>,
      <<".", "g", "i", "t", "i", "g", "n", "o", "r", "e">>,
      <<"G", "i", "t", "I", "g", "n", "o", "r", "e">>,
      <<"M", "a", "k", "e", "f", "i", "l", "e", ".", "g", "i", "t", "i", "g", "n", "o", "r", "e">>,
      <<"c", "o", "n", "f", "i", "g", ".", "t", "o", "m", "l", " ", "M", "a", "k", "e", "f", "i", "l", "e">>,
      <<"g", "i", "t", "i", "g", "n", "o", "r", "e", " ", "C", "a", "r", "g", "o", ".", "t", "o", "m", "l">>,
      <<"g", "i", "t", "i", "g", "n", "o", "r", "e", " ", "m", "a", "k", "e", "f", "i", "l", "e">> }
NameExtensions == { <<".", "d", "o", "c", "x">>, <<".", "D", "O", "C", "X">> }

FenceNames == { pr \o kw \o ex : pr \in NamePrefixes, kw \in NameKeywords, ex \in NameExtensions }

FenceInit ==
    /\ fname \in FenceNames
    /\ fname_lower = <<>>
    /\ ftag = <<>>
    /\ fence = <<>>
    /\ fpc = "name"
    /\ NormIdle
    /\ NameIdle
    /\ WalkIdle
    /\ BatchIdle

\* lower = name.lower()
LowerName ==
    /\ fpc = "name"
    /\ fname_lower' = Lower(fname)
    /\ fpc' = "lowered"
    /\ UNCHANGED <<nvars, svars, wvars, bvars, fname, ftag, fence>>

\* lang = detect_language_from_name(base)
DetectLanguage ==
    /\ fpc = "lowered"
    /\ ftag' = detect_language_from_name(fname)
    /\ fpc' = "tagged"
    /\ UNCHANGED <<nvars, svars, wvars, bvars, fname, fname_lower, fence>>

\* the assignment to fence in convert_one
ComposeFence ==
    /\ fpc = "tagged"
    /\ fence' = FenceLine(ftag)
    /\ fpc' = "fenced"
    /\ UNCHANGED <<nvars, svars, wvars, bvars, fname, fname_lower, ftag>>

FenceNext == LowerName \/ DetectLanguage \/ ComposeFence

SpecFence == FenceInit /\ [][FenceNext]_vars

(***************************************************************************)
(* The text normaliser on arbitrary fragment lists                         *)
(***************************************************************************)
MaxFrags == 5

\* fragments as the walkers can produce them: empty, plain, with an inner
\* soft break, blank
Fragments == { <<>>, <<"a">>, <<"b">>, <<SP>>, <<"a", LF, "b">> }

FragmentLists == UNION { [1..n -> Fragments] : n \in 0..MaxFrags }

NormInit ==
    /\ parts \in FragmentLists
    /\ text = <<>>
    /\ text2 = <<>>
    /\ npc = "parts"
    /\ NameIdle
    /\ WalkIdle
    /\ BatchIdle
    /\ FenceIdle

\* text = '\n'.join(parts)
JoinParts ==
    /\ npc = "parts"
    /\ text' = Join(<<LF>>, parts)
    /\ npc' = "joined"
    /\ UNCHANGED <<fvars, svars, wvars, bvars, parts, text2>>

\* text = re.sub(r'\n{3,}', '\n\n', text).strip()
NormalizeText ==
    /\ npc = "joined"
    /\ text' = Normalize(text)
    /\ npc' = "normalized"
    /\ UNCHANGED <<fvars, svars, wvars, bvars, parts, text2>>

\* the normaliser applied to its own output
NormalizeAgain ==
    /\ npc = "normalized"
    /\ text2' = Normalize(text)
    /\ npc' = "again"
    /\ UNCHANGED <<fvars, svars, wvars, bvars, parts, text>>

NormNext == JoinParts \/ NormalizeText \/ NormalizeAgain

SpecNorm == NormInit /\ [][NormNext]_vars

(***************************************************************************)
(* Properties of the normaliser                                            *)
(***************************************************************************)
HasTripleNewline(s) ==
    \E i \in 1..(Len(s) - 2) : s[i] = LF /\ s[i + 1] = LF /\ s[i + 2] = LF

EdgesTrimmed(s) == s = <<>> \/ (~IsSpace(s[1]) /\ ~IsSpace(s[Len(s)]))

\* C8: the normaliser is idempotent: normalising its output string again
\* (collapse runs of three or more newlines, then trim) returns the identical
\* string, for every fragment list.
C8_NormalizeIdempotent == npc = "again" => text2 = text

\* a list on which the first normalisation both collapsed and changed the text
C8_Witness ==
    /\ npc = "again"
    /\ text2 = text
    /\ HasTripleNewline(Join(<<LF>>, parts))
    /\ text # <<>>

\* C9: the normalised text never holds three consecutive newlines and never
\* starts or ends with whitespace; the fragments ["a", "", "", "", "b"]
\* normalise to "a", one blank line, "b".
C9_BlankLineCollapsing ==
    npc = "normalized" =>
        /\ ~HasTripleNewline(text)
        /\ EdgesTrimmed(text)
        /\ parts = << <<"a">>, <<>>, <<>>, <<>>, <<"b">> >> => text = <<"a", LF, LF, "b">>

C9_Witness ==
    /\ npc = "normalized"
    /\ parts = << <<"a">>, <<>>, <<>>, <<>>, <<"b">> >>
    /\ text = <<"a", LF, LF, "b">>

(***************************************************************************)
(* Properties of the name sanitiser                                        *)
(***************************************************************************)
HasDocxExtension(b) == LiteralAt(b, Len(b) - Len(DotDocx) + 1, DotDocx)

\* the basename minus a trailing .docx in any letter case
Stem(b) == IF HasDocxExtension(b) THEN SubSeq(b, 1, Len(b) - Len(DotDocx)) ELSE b

ContainsVersionFormulaID(s) == \E j \in 1..Len(s) : LiteralAt(s, j, VersionFormulaID)

FirstVersionFormulaID(s) ==
    CHOOSE j \in 1..Len(s) :
        /\ LiteralAt(s, j, VersionFormulaID)
        /\ \A k \in 1..(j - 1) : ~LiteralAt(s, k, VersionFormulaID)

DropTrailingComma(s) ==
    IF s # <<>> /\ s[Len(s)] = "," THEN SubSeq(s, 1, Len(s) - 1) ELSE s

\* what stands before the suffix: the text before the first "Version
\* FormulaID", less the white space and the one optional comma that lead it
BeforeSuffix(s) == DropTrailingComma(RStrip(SubSeq(s, 1, FirstVersionFormulaID(s) - 1)))

PolicyDocx == <<"P", "o", "l", "i", "c", "y", ",", " ", "V", "e", "r", "s", "i", "o", "n", " ", "F", "o", "r", "m", "u", "l", "a", "I", "D", " ", "7", ".", "2", " ", "(", "f", "i", "n", "a", "l", ")", ".", "d", "o", "c", "x">>
PolicyMd == <<"P", "o", "l", "i", "c", "y", ".", "m", "d">>
PlainDocx == <<"p", "l", "a", "i", "n", ".", "d", "o", "c", "x">>
PlainMd == <<"p", "l", "a", "i", "n", ".", "m", "d">>

\* C10 (as stated): for every basename with no "Version FormulaID" suffix the
\* output name is the name minus its .docx extension, unchanged, plus ".md".
C10_NoSuffixKeptUnchanged ==
    (spc = "named" /\ ~ContainsVersionFormulaID(Stem(basename)))
        => out_name = Stem(basename) \o DotMd

\* C10 (amended): the output name is the basename minus its trailing .docx
\* (any letter case), minus the suffix that starts at the first "Version
\* FormulaID" with its leading comma and white space, trimmed of white space
\* at both ends, plus ".md"; with no such suffix it is the trimmed name minus
\* the extension, so a name that only contains "Version" loses nothing but
\* white space at its ends.
C10_SanitizedName ==
    spc = "named" =>
        /\ ~ContainsVersionFormulaID(Stem(basename))
               => out_name = Strip(Stem(basename)) \o DotMd
        /\ ContainsVersionFormulaID(Stem(basename))
               => out_name = Strip(BeforeSuffix(Stem(basename))) \o DotMd
        /\ basename = PolicyDocx => out_name = PolicyMd
        /\ basename = PlainDocx => out_name = PlainMd

C10_Witness ==
    /\ spc = "named"
    /\ basename = PolicyDocx
    /\ out_name = PolicyMd

(***************************************************************************)
(* Properties of the walkers                                               *)
(***************************************************************************)
DocxWalked == wpc \in {"docx_parts", "docx_text", "zip_parts", "done"}
ZipWalked == wpc \in {"zip_parts", "done"}

\* the body holds exactly a paragraph, a table and a paragraph
ParagraphTableParagraph(b) ==
    /\ Len(b.kids) = 3
    /\ b.kids[1].tag = "p"
    /\ b.kids[2].tag = "tbl"
    /\ b.kids[3].tag = "p"

\* C1: for a body P1, T, P2 the fragment list built by
\* read_docx_text_python_docx is exactly the text of P1, the trimmed text of
\* each text run of T in document order, one empty fragment, the text of P2.
C1_OrderPreserved ==
    (DocxWalked /\ ParagraphTableParagraph(body)) =>
        parts_docx = <<ParagraphFragment(body.kids[1])>>
                         \o CellFragments(Iter(body.kids[2]))
                         \o << <<>> >>
                         \o <<ParagraphFragment(body.kids[3])>>

Letters == {"a", "b", "c", "d"}

RECURSIVE Occurrences(_, _)
Occurrences(ch, s) ==
    IF s = <<>> THEN 0
    ELSE (IF Head(s) = ch THEN 1 ELSE 0) + Occurrences(ch, Tail(s))

\* the text of every text run of the tree, each run once
RECURSIVE RunTexts(_)
RunTexts(nodes) ==
    IF nodes = <<>> THEN <<>>
    ELSE (IF Head(nodes).tag = "t" THEN Head(nodes).text ELSE <<>>) \o RunTexts(Tail(nodes))

\* every letter stands in the fragments as often as in the text runs
EachRunOnce(fragments, b) ==
    \A ch \in Letters :
        Occurrences(ch, Concat(fragments)) = Occurrences(ch, RunTexts(Iter(b)))

\* C2: every text run contributes its text to exactly one fragment, in the
\* structured walker and in the raw-XML walker, also for runs inside table
\* cells and nested tables.
C2_EachRunInOneFragment ==
    /\ DocxWalked => EachRunOnce(parts_docx, body)
    /\ ZipWalked => EachRunOnce(parts_zip, body)

\* C3: the structured strategy and the raw-XML strategy return the same
\* normalised text for every document tree.
C3_StrategiesAgree == wpc = "done" => text_docx = text_zip

(***************************************************************************)
(* Properties of the batch                                                 *)
(***************************************************************************)
\* main hands the path to convert_one
Convertible(path) == Exists(path) /\ EndsWith(Lower(path), DotDocx)

\* the exception the raw-XML path raises on the file, or "none"
RawFailure(path) ==
    IF ~IsZipArchive(path) THEN "BadZipFile"
    ELSE IF ~HasDocumentPart(path) THEN "KeyError"
    ELSE IF ~IsWellFormed(path) THEN "ParseError"
    ELSE "none"

\* the structured path is tried and raises on the file
StructuredFails(path) == HAS_PYTHON_DOCX /\ StructuredRaises(path)

\* the text read_docx_text returns for a file it can read
ExtractedText(path) ==
    IF HAS_PYTHON_DOCX /\ ~StructuredRaises(path)
    THEN PartsText(PythonDocxParts(DocumentOf(path)))
    ELSE PartsText(ZipXmlParts(DocumentOf(path)))

\* the report entry of a path, from that path alone
OwnEntry(path) ==
    IF ~Exists(path) THEN Entry(path, "MISSING", <<>>)
    ELSE IF ~EndsWith(Lower(path), DotDocx) THEN Entry(path, "SKIPPED", <<>>)
    ELSE IF HAS_PYTHON_DOCX /\ ~StructuredRaises(path)
         THEN Entry(path, "OK", sanitize_basename(Basename(path)) \o DotMd)
    ELSE IF RawFailure(path) = "none"
         THEN Entry(path, "OK", sanitize_basename(Basename(path)) \o DotMd)
    ELSE Entry(path, "ERROR", RawFailure(path))

Successes == { i \in 1..Len(results) : results[i].kind = "OK" }

\* C4: at the end of a batch every input reported as a success has its own
\* Markdown file holding that input's extracted text: as many files as
\* success entries, none overwritten by a later input.
C4_OneFilePerSuccess ==
    pc = "report" =>
        /\ Cardinality(DOMAIN outfiles) = Cardinality(Successes)
        /\ \A i \in Successes :
               /\ results[i].detail \in DOMAIN outfiles
               /\ outfiles[results[i].detail].from = Basename(inputs[i])
               /\ outfiles[results[i].detail].text = ExtractedText(inputs[i])

\* C5: the loop appends exactly one report entry per input, in input order;
\* an error becomes that input's ERROR entry, the loop goes on, and every
\* entry is the outcome of its own input whatever its neighbours are; the
\* batch good, malformed, good yields success, ERROR, success.
C5_BatchIsolation ==
    pc # "idle" =>
        /\ Len(results) = idx - 1
        /\ Len(results) <= Len(inputs)
        /\ \A i \in 1..Len(results) : results[i] = OwnEntry(inputs[i])
        /\ pc = "report" => Len(results) = Len(inputs)
        /\ (pc = "report" /\ inputs = <<PathPlain, PathNotZip, PathPlain>>)
               => /\ results[1].kind = "OK"
                  /\ results[2].kind = "ERROR"
                  /\ results[3].kind = "OK"

C5_Witness ==
    /\ pc = "report"
    /\ inputs = <<PathPlain, PathNotZip, PathPlain>>
    /\ Len(results) = 3
    /\ results[2] = Entry(PathNotZip, "ERROR", "BadZipFile")
    /\ results[3].kind = "OK"

\* C6: when the structured path raises on an input the raw-XML path runs on
\* the same input: the input is reported as a success if the raw path
\* succeeds, and as an ERROR (with the raw path's error) only if the raw path
\* fails too.
C6_Fallback ==
    /\ \A i \in 1..Len(results) :
           (Convertible(inputs[i]) /\ StructuredFails(inputs[i])) =>
               IF RawFailure(inputs[i]) = "none"
               THEN results[i].kind = "OK"
               ELSE results[i].kind = "ERROR" /\ results[i].detail = RawFailure(inputs[i])
    /\ (pc = "except" /\ StructuredFails(inputs[idx])) => exc = RawFailure(inputs[idx])

C6_Witness ==
    /\ HAS_PYTHON_DOCX
    /\ Len(results) >= 2
    /\ inputs[1] = PathFallback
    /\ results[1].kind = "OK"
    /\ inputs[2] = PathBadXml
    /\ results[2].kind = "ERROR"

\* C7: the archive handle is scoped: it is open only between the opening of
\* the archive and the exit of the with block of the input the loop is at, so
\* never two handles are open and none is open once the loop is back at its
\* head or an error is being reported.
C7_HandleScoped ==
    /\ Cardinality(handles) <= 1
    /\ handles \subseteq {idx}
    /\ pc \notin {"zip_read", "zip_exit"} => handles = {}

\* the archive of the second input is open after the first one failed on a
\* missing entry
C7_Witness ==
    /\ pc = "zip_read"
    /\ idx = 2
    /\ handles = {2}
    /\ results[1].kind = "ERROR"
    /\ results[1].detail = "KeyError"

(***************************************************************************)
(* Properties of the fence language selection                              *)
(***************************************************************************)
\* the ordered table: the substrings of a row, and the tag of the row
FenceTable ==
    << [subs |-> {CargoToml, RustToolchainToml, ConfigToml}, tag |-> Toml],
       [subs |-> {Makefile}, tag |-> Makefile],
       [subs |-> {Gitignore}, tag |-> Gitignore] >>

\* the rows one of whose substrings stands in the name, letter case ignored
MatchingRows(name) ==
    { r \in 1..Len(FenceTable) :
          \E sub \in FenceTable[r].subs : \E j \in 1..Len(name) : LiteralAt(name, j, sub) }

CargoTomlDocx == <<"C", "a", "r", "g", "o", ".", "t", "o", "m", "l", ".", "d", "o", "c", "x">>
NotesDocx == <<"n", "o", "t", "e", "s", ".", "d", "o", "c", "x">>

\* C11: the fence tag is the tag of the earliest row of the ordered table
\* (toml, then makefile, then gitignore) one of whose substrings stands in the
\* file name, letter case ignored, and empty (a plain fence) when no row
\* matches; "Cargo.toml.docx" gives toml and "notes.docx" a plain fence.
C11_FirstMatchingRow ==
    /\ fpc \in {"tagged", "fenced"} =>
           /\ MatchingRows(fname) = {} => ftag = <<>>
           /\ MatchingRows(fname) # {} =>
                  \E r \in MatchingRows(fname) :
                      /\ \A q \in MatchingRows(fname) : r <= q
                      /\ ftag = FenceTable[r].tag
           /\ fname = CargoTomlDocx => ftag = Toml
           /\ fname = NotesDocx => ftag = <<>>
    /\ fpc = "fenced" =>
           /\ fence = Backticks \o ftag \o <<LF>>
           /\ fname = NotesDocx => fence = <<BQ, BQ, BQ, LF>>

\* a name that matches the toml row and the makefile row gets toml
C11_Witness ==
    /\ fpc = "fenced"
    /\ MatchingRows(fname) = {1, 2}
    /\ ftag = Toml
    /\ fence = Backticks \o Toml \o <<LF>>

====
